---- MODULE Spec2Model ----
(***************************************************************************)
(* Tagged sequences (DataFrame) and the lazy cursor algebra of the         *)
(* dataframe library: source, apply, reduction, intersection, union    *)
(* and retag cursors, and materialize().                                   *)
(*                                                                         *)
(* A cursor is a record whose `kind` names the C++ struct and whose other  *)
(* fields are the struct's members; child cursors are nested records, as   *)
(* they are nested by-value members in the C++ templates.  Indices are     *)
(* 0-based as in the source; sequences are read at i + 1.                  *)
(*                                                                         *)
(* A read past the end of a std::vector is undefined behaviour; wherever   *)
(* the code performs one the value read is the parameter g ("junk"),       *)
(* chosen nondeterministically by the action that runs the code.           *)
(***************************************************************************)
EXTENDS Integers, Sequences, FiniteSets, TLC

\* ---------------------------------------------------------------- bounds
MaxLen == 2          \* longest input sequence
MaxTag == 2          \* explicit tags are drawn from 1..MaxTag
MaxWrap == 1         \* apply / reduce stages stacked on the two operands together
MaxHandles == 3      \* DataFrame objects alive at one time

Tags == 1..MaxTag
Junk == {0, 77}      \* what a read past the end of a vector may return
SeekTags == 0..(MaxTag + 1)

ApplyOps == {"neg", "odd"}
ReduceOps == {"sum", "max", "count"}
MergeOps == {"plus", "left"}

\* ------------------------------------------------------------ DataFrame
\* DataFrame<_Tag,_Value>: tags and values arrays.  rt = TRUE is the
\* DataFrame<RangeTag,_Value> form, whose tags vector stores only a size.
DataFrame(tags, values) == [rt |-> FALSE, tags |-> tags, sz |-> Len(tags), values |-> values]

RangeFrame(values) == [rt |-> TRUE, tags |-> <<>>, sz |-> Len(values), values |-> values]

EmptyFrame == DataFrame(<<>>, <<>>)

Size(df) == df.sz

\* mutant: implicit tags count from one
TagAt_from_one(df, i, g) ==
    IF df.rt THEN i + 1
    ELSE IF i < Len(df.tags) THEN df.tags[i + 1] ELSE g

\* (*df.tags)[i]: std::vector<RangeTag>::operator[] returns i; a std::vector
\* read at i >= size() is out of bounds and returns junk.
TagAt(df, i, g) ==
    IF df.rt THEN i
    ELSE IF i < Len(df.tags) THEN df.tags[i + 1] ELSE g

\* (*df.values)[i]
ValueAt(df, i, g) == IF i < Len(df.values) THEN df.values[i + 1] ELSE g

IsSorted(s) == \A k \in 1..(Len(s) - 1) : s[k] <= s[k + 1]

\* mutant: within a run of equal tags the last row is found
LowerBound_last(tags, t) ==
    IF \E k \in 1..Len(tags) : ~(tags[k] < t)
    THEN LET first == CHOOSE k \in 1..Len(tags) : ~(tags[k] < t) /\ \A j \in 1..(k - 1) : tags[j] < t
         IN (CHOOSE k \in first..Len(tags) :
                 tags[k] = tags[first] /\ \A j \in (k + 1)..Len(tags) : tags[j] # tags[first]) - 1
    ELSE Len(tags)

\* std::lower_bound over the whole (sorted) tags array: 0-based index of the
\* first element that is not less than t, or the size when there is none.
LowerBound(tags, t) ==
    IF \E k \in 1..Len(tags) : ~(tags[k] < t)
    THEN (CHOOSE k \in 1..Len(tags) : ~(tags[k] < t) /\ \A j \in 1..(k - 1) : tags[j] < t) - 1
    ELSE Len(tags)

\* ------------------------------------------------------------ callbacks
\* the ApplyOp lambdas: "neg" is -v; "odd" maps a row to one of two keys (v modulo 2),
\* as a lambda that maps the rows of a match table to a player
ApplyOpEval(op, t, v) == IF op = "neg" THEN 0 - v ELSE v % 2

\* ReduceAdaptor::operator()(Tag, Value): initop(v1)
ReduceInit(op, t, v) == IF op = "count" THEN 1 ELSE v

\* ReduceAdaptor::operator()(Tag, Value, ValueAccumulator): op(v1, v2)
ReduceAcc(op, t, v, acc) ==
    CASE op = "count" -> acc + 1
      [] op = "sum" -> v + acc
      [] op = "max" -> IF v > acc THEN v ELSE acc

\* the lambda of Operations::collate around op; "left" is operator[]'s op
MergeOpEval(op, t, v1, v2) == IF op = "plus" THEN v1 + v2 ELSE v1

\* --------------------------------------------------------------- cursors
RECURSIVE end(_), tag(_, _), value(_, _), next(_, _), advance_to_tag(_, _, _)
RECURSIVE advance_to_tag_by_linear_search(_, _, _), Reduction_fold(_, _), Intersection_update_tagvalue(_, _)
RECURSIVE Drain(_, _, _, _), Union_end(_), Union_next(_, _)

\* Expr_DataFrame(df): df(_df), i(0)
Expr_DataFrame(df) == [kind |-> "src", df |-> df, i |-> 0]

\* mutant: ties go to df1
pick_from_df1_le(c, g) == ~end(c.df1) /\ (end(c.df2) \/ tag(c.df1, g) <= tag(c.df2, g))

\* Expr_Union::pick_from_df1
pick_from_df1(c, g) == ~end(c.df1) /\ (end(c.df2) \/ tag(c.df1, g) < tag(c.df2, g))

\* end() of every cursor kind
end(c) ==
    CASE c.kind = "src" -> c.i >= Size(c.df)
      [] c.kind = "retag" -> c.i >= Size(c.df_values)
      [] c.kind = "apply" -> end(c.df)
      [] c.kind = "reduce" -> c._end
      [] c.kind = "inter" -> end(c.df2)
      [] c.kind = "union" -> Union_end(c)

\* mutant: the union ends as soon as one input ends
Union_end_either(c) == end(c.df1) \/ end(c.df2)

\* Expr_Union::end
Union_end(c) == end(c.df1) /\ end(c.df2)

\* (*traversal_order)[i]
OrderAt(c, g) == IF c.i < Len(c.traversal_order) THEN c.traversal_order[c.i + 1] ELSE g

\* tag() of every cursor kind.  Expr_Apply returns *_tag, where _tag was set
\* to &df.tag() by the update_tagvalue() that follows every move of df.
tag(c, g) ==
    CASE c.kind = "src" -> TagAt(c.df, c.i, g)
      [] c.kind = "retag" -> ValueAt(c.df_tags, OrderAt(c, g), g)
      [] c.kind = "apply" -> tag(c.df, g)
      [] c.kind = "reduce" -> c._tag
      [] c.kind = "inter" -> tag(c.df2, g)
      [] c.kind = "union" -> IF pick_from_df1(c, g) THEN tag(c.df1, g) ELSE tag(c.df2, g)

\* value() of every cursor kind
value(c, g) ==
    CASE c.kind = "src" -> ValueAt(c.df, c.i, g)
      [] c.kind = "retag" -> ValueAt(c.df_values, OrderAt(c, g), g)
      [] c.kind = "apply" -> c._value
      [] c.kind = "reduce" -> c._value
      [] c.kind = "inter" -> c._value
      [] c.kind = "union" -> IF pick_from_df1(c, g) THEN value(c.df1, g) ELSE value(c.df2, g)

\* Expr_Apply::update_tagvalue: reads df.tag() and df.value() also when df is
\* at its end.
Apply_update_tagvalue(c, g) == [c EXCEPT !._value = ApplyOpEval(c.apply_op, tag(c.df, g), value(c.df, g))]

\* mutant: the loop over the rest of the run is compiled out
Reduction_fold_none(c, g) == c

\* the for loop of Expr_Reduction::next, df already one row into the run
Reduction_fold(c, g) ==
    IF ~end(c.df) /\ tag(c.df, g) = c._tag
    THEN Reduction_fold([c EXCEPT !._value = ReduceAcc(c.reduce_op, tag(c.df, g), value(c.df, g), c._value),
                                 !.df = next(c.df, g)], g)
    ELSE c

\* mutant: df is not stepped past the row that initialised the accumulator
Reduction_next_refold(c, g) ==
    IF end(c.df) THEN [c EXCEPT !._end = TRUE]
    ELSE Reduction_fold([c EXCEPT !._end = FALSE,
                                  !._tag = tag(c.df, g),
                                  !._value = ReduceInit(c.reduce_op, tag(c.df, g), value(c.df, g))], g)

\* Expr_Reduction::next
Reduction_next(c, g) ==
    IF end(c.df) THEN [c EXCEPT !._end = TRUE]
    ELSE Reduction_fold([c EXCEPT !._end = FALSE,
                                 !._tag = tag(c.df, g),
                                 !._value = ReduceInit(c.reduce_op, tag(c.df, g), value(c.df, g)),
                                 !.df = next(c.df, g)], g)

\* mutant: the callback is invoked without testing df1.end()
Intersection_update_tagvalue_unchecked(c, g) ==
    IF end(c.df2) THEN c
    ELSE LET d1 == advance_to_tag(c.df1, tag(c.df2, g), g)
         IN [c EXCEPT !.df1 = d1,
                      !._value = MergeOpEval(c.merge_op, tag(d1, g), value(d1, g), value(c.df2, g))]

\* Expr_Intersection::update_tagvalue
Intersection_update_tagvalue(c, g) ==
    IF end(c.df2) THEN c
    ELSE LET d1 == advance_to_tag(c.df1, tag(c.df2, g), g)
         IN IF end(d1)
            THEN Intersection_update_tagvalue([c EXCEPT !.df1 = d1, !.df2 = next(c.df2, g)], g)
            ELSE [c EXCEPT !.df1 = d1,
                           !._value = MergeOpEval(c.merge_op, tag(d1, g), value(d1, g), value(c.df2, g))]

\* next() of every cursor kind
next(c, g) ==
    CASE c.kind = "src" -> [c EXCEPT !.i = c.i + 1]
      [] c.kind = "retag" -> [c EXCEPT !.i = c.i + 1]
      [] c.kind = "apply" -> Apply_update_tagvalue([c EXCEPT !.df = next(c.df, g)], g)
      [] c.kind = "reduce" -> Reduction_next(c, g)
      [] c.kind = "inter" -> Intersection_update_tagvalue([c EXCEPT !.df2 = next(c.df2, g)], g)
      [] c.kind = "union" -> Union_next(c, g)

\* mutant: on equal tags both inputs are stepped
Union_next_both(c, g) ==
    IF pick_from_df1(c, g)
    THEN [c EXCEPT !.df1 = next(c.df1, g)]
    ELSE IF ~end(c.df1) /\ tag(c.df1, g) = tag(c.df2, g)
         THEN [c EXCEPT !.df1 = next(c.df1, g), !.df2 = next(c.df2, g)]
         ELSE [c EXCEPT !.df2 = next(c.df2, g)]

\* Expr_Union::next
Union_next(c, g) ==
    IF pick_from_df1(c, g)
    THEN [c EXCEPT !.df1 = next(c.df1, g)]
    ELSE [c EXCEPT !.df2 = next(c.df2, g)]

\* mutant: the search stops at the first tag that is not below t
RECURSIVE advance_to_tag_by_linear_search_ge(_, _, _)
advance_to_tag_by_linear_search_ge(c, t, g) ==
    IF ~end(c) /\ tag(c, g) < t THEN advance_to_tag_by_linear_search_ge(next(c, g), t, g) ELSE c

\* advance_to_tag_by_linear_search
advance_to_tag_by_linear_search(c, t, g) ==
    IF ~end(c) /\ tag(c, g) # t THEN advance_to_tag_by_linear_search(next(c, g), t, g) ELSE c

\* mutant: the row lower_bound found is taken whatever its tag
Expr_DataFrame_advance_to_tag_ge(c, t, g) == [c EXCEPT !.i = LowerBound(c.df.tags, t)]

\* Expr_DataFrame::advance_to_tag.  When lower_bound returns end(), *l is a
\* read past the end; both branches then store size().
Expr_DataFrame_advance_to_tag(c, t, g) ==
    LET l == LowerBound(c.df.tags, t)
    IN IF TagAt(c.df, l, g) = t
       THEN [c EXCEPT !.i = l]
       ELSE [c EXCEPT !.i = Size(c.df)]

\* mutant: the seek is relative to the current row
RangeTag_advance_to_tag_relative(c, t) == [c EXCEPT !.i = c.i + t]

\* Expr_DataFrame<RangeTag,_Value>::advance_to_tag
RangeTag_advance_to_tag(c, t) == [c EXCEPT !.i = t]

\* advance_to_tag() of every cursor kind
advance_to_tag(c, t, g) ==
    CASE c.kind = "src" -> IF c.df.rt THEN RangeTag_advance_to_tag(c, t) ELSE Expr_DataFrame_advance_to_tag(c, t, g)
      [] c.kind = "apply" -> Apply_update_tagvalue([c EXCEPT !.df = advance_to_tag(c.df, t, g)], g)
      [] OTHER -> advance_to_tag_by_linear_search(c, t, g)

\* mutant: the constructor does not compute the first row
Expr_Apply_no_update(df, op, g) == [kind |-> "apply", df |-> df, apply_op |-> op, _value |-> g]

\* Expr_Apply(df, apply_op): update_tagvalue() in the constructor
Expr_Apply(df, op, g) ==
    Apply_update_tagvalue([kind |-> "apply", df |-> df, apply_op |-> op, _value |-> g], g)

\* Expr_Reduction(df, reduce_op): _end(false), next() in the constructor;
\* _tag and _value stay uninitialised when df is empty.
Expr_Reduction(df, op, g) ==
    Reduction_next([kind |-> "reduce", df |-> df, reduce_op |-> op,
                   _tag |-> g, _value |-> g, _end |-> FALSE], g)

\* Expr_Intersection(df1, df2, merge_op): update_tagvalue() in the constructor
Expr_Intersection(df1, df2, op, g) ==
    Intersection_update_tagvalue([kind |-> "inter", df1 |-> df1, df2 |-> df2, merge_op |-> op, _value |-> g], g)

\* Expr_Union(df1, df2)
Expr_Union(df1, df2) == [kind |-> "union", df1 |-> df1, df2 |-> df2]

\* Expr_Operations::materialize: drains a copy of the cursor
Drain(c, tags, values, g) ==
    IF end(c) THEN DataFrame(tags, values)
    ELSE Drain(next(c, g), Append(tags, tag(c, g)), Append(values, value(c, g)), g)

\* mutant: the copy is stepped before its first row is read
materialize_skip(c, g) == IF end(c) THEN DataFrame(<<>>, <<>>) ELSE Drain(next(c, g), <<>>, <<>>, g)

materialize(c, g) == Drain(c, <<>>, <<>>, g)

\* argsort: indices_map[array[i]].push_back(i) for i ascending, then the
\* buckets of the std::map read back in ascending key order
\* mutant: a bucket is read back to front
Bucket_reversed(array, key) ==
    LET idx == [k \in 1..Len(array) |-> Len(array) - k]
    IN SelectSeq(idx, LAMBDA i : array[i + 1] = key)

Bucket(array, key) ==
    LET idx == [k \in 1..Len(array) |-> k - 1]
    IN SelectSeq(idx, LAMBDA i : array[i + 1] = key)

RECURSIVE ArgsortKeys(_, _)
ArgsortKeys(keys, array) ==
    IF keys = {} THEN <<>>
    ELSE LET m == CHOOSE k \in keys : \A o \in keys : ~(o < k)
         IN Bucket(array, m) \o ArgsortKeys(keys \ {m}, array)

\* mutant: the rows are left in their input order
argsort_identity(array) == [k \in 1..Len(array) |-> k - 1]

argsort(array) == ArgsortKeys({array[k] : k \in 1..Len(array)}, array)

\* the length test of Expr_Retag::Expr_Retag
RetagThrows(df_tags, df_values) == Size(df_tags) # Size(df_values)

\* Expr_Retag(df_tags, df_values) when it does not throw
Expr_Retag(df_tags, df_values) ==
    [kind |-> "retag", df_tags |-> df_tags, df_values |-> df_values, i |-> 0,
     traversal_order |-> argsort(df_tags.values)]

\* to_dataframe(Expr df): df.materialize().  For a DataFrame operand the
\* overload returns the operand, whose content a fresh source reproduces.
to_dataframe(c, g) == materialize(c, g)

\* the operand is a DataFrame: overload resolution picks
\* to_dataframe(DataFrame), which returns its argument without draining it
IsDataFrame(c) == c.kind = "src"

\* ---------------------------------------------------------------- state
VARIABLES
    dfA, dfB,     \* the two input DataFrames
    L, R,         \* the operand expressions built over dfA and dfB
    Lchild,       \* L before its outermost apply / reduce stage was added
    wraps,        \* apply / reduce stages added to the operands so far
    stage,        \* "build", "ready" (cur exists), "done" (materialized), "error"
    how,          \* operation that built cur: "none", "take", "collate", "concatenate", "retag"
    mop,          \* the CollateOp of cur, "none" otherwise
    cur,          \* the cursor under test
    last, arg,    \* the last call made on cur and its argument
    again,        \* the last call was advance_to_tag(t) right after advance_to_tag(t)
    out,          \* the DataFrame returned by materialize()
    post,         \* the ReduceOp of a reduction stacked on the combined cursor, "none" otherwise
    drained,      \* operands of retag() that to_dataframe() materialized: "tag_expr", "this"
    store,        \* the std::vector objects allocated with new, by address 1, 2, ...
    handles,      \* the DataFrame objects: the addresses their tags and values pointers hold
    lastw,        \* the DataFrame the last step wrote through, 0 when it was not a write
    got           \* what df[i] returned when the last step was df[i], NoRow otherwise

pipeVars == <<dfA, dfB, L, R, Lchild, wraps, stage, how, mop, cur, last, arg, again, out, post, drained>>

storeVars == <<store, handles, lastw, got>>

vars == <<pipeVars, storeVars>>

\* sorted tag arrays with equally long value arrays
SeqsUpTo(S, n) == UNION {[1..k -> S] : k \in 0..n}

SortedTags == {q \in SeqsUpTo(Tags, MaxLen) : IsSorted(q)}

\* the values of an input name its rows: unit, 2 * unit, ...
RowVals(n, unit) == [k \in 1..n |-> unit * k]

LeftFrames ==
    {DataFrame(t, RowVals(Len(t), 10)) : t \in SortedTags}
        \cup {RangeFrame(RowVals(n, 10)) : n \in 0..MaxLen}

RightFrames == {DataFrame(t, RowVals(Len(t), 1)) : t \in SortedTags}

NoCursor == [kind |-> "none"]

NoRow == [h |-> 0]

Init ==
    /\ dfA \in LeftFrames
    /\ dfB \in RightFrames
    /\ L = Expr_DataFrame(dfA)
    /\ R = Expr_DataFrame(dfB)
    /\ Lchild = NoCursor
    /\ wraps = 0
    /\ stage = "build"
    /\ how = "none"
    /\ mop = "none"
    /\ cur = NoCursor
    /\ last = "none" /\ arg = 0 /\ again = FALSE
    /\ out = EmptyFrame
    /\ post = "none"
    /\ drained = {}
    /\ store = <<>> /\ handles = <<>> /\ lastw = 0 /\ got = NoRow

\* -------------------------------------------------------------- actions
\* Operations::apply on an operand
ApplyL(op) ==
    /\ stage = "build" /\ wraps < MaxWrap
    /\ \E g \in Junk : L' = Expr_Apply(L, op, g)
    /\ Lchild' = L
    /\ wraps' = wraps + 1
    /\ UNCHANGED <<dfA, dfB, R, stage, how, mop, cur, last, arg, again, out, post, drained, storeVars>>

ApplyR(op) ==
    /\ stage = "build" /\ wraps < MaxWrap
    /\ \E g \in Junk : R' = Expr_Apply(R, op, g)
    /\ wraps' = wraps + 1
    /\ UNCHANGED <<dfA, dfB, L, Lchild, stage, how, mop, cur, last, arg, again, out, post, drained, storeVars>>

\* Operations::reduce (reduce_sum, reduce_max, reduce_count) on an operand
ReduceL(op) ==
    /\ stage = "build" /\ wraps < MaxWrap
    /\ \E g \in Junk : L' = Expr_Reduction(L, op, g)
    /\ Lchild' = L
    /\ wraps' = wraps + 1
    /\ UNCHANGED <<dfA, dfB, R, stage, how, mop, cur, last, arg, again, out, post, drained, storeVars>>

ReduceR(op) ==
    /\ stage = "build" /\ wraps < MaxWrap
    /\ \E g \in Junk : R' = Expr_Reduction(R, op, g)
    /\ wraps' = wraps + 1
    /\ UNCHANGED <<dfA, dfB, L, Lchild, stage, how, mop, cur, last, arg, again, out, post, drained, storeVars>>

\* the left operand itself becomes the cursor under test
Take ==
    /\ stage = "build"
    /\ cur' = L
    /\ stage' = "ready" /\ how' = "take"
    /\ UNCHANGED <<dfA, dfB, L, R, Lchild, wraps, mop, last, arg, again, out, post, drained, storeVars>>

\* Operations::collate: L.collate(R, op)
Collate(op) ==
    /\ stage = "build"
    /\ \E g \in Junk : cur' = Expr_Intersection(L, R, op, g)
    /\ stage' = "ready" /\ how' = "collate" /\ mop' = op
    /\ UNCHANGED <<dfA, dfB, L, R, Lchild, wraps, last, arg, again, out, post, drained, storeVars>>

\* Operations::concatenate: L.concatenate(R)
Concatenate ==
    /\ stage = "build"
    /\ cur' = Expr_Union(L, R)
    /\ stage' = "ready" /\ how' = "concatenate"
    /\ UNCHANGED <<dfA, dfB, L, R, Lchild, wraps, mop, last, arg, again, out, post, drained, storeVars>>

\* Operations::retag(Expr tag_expr): L.retag(R).  to_dataframe() returns a
\* DataFrame operand (a bare source here) as it is and materializes every
\* other operand; then Expr_Retag's constructor runs
Retag ==
    /\ stage = "build"
    /\ \E g \in Junk :
         LET df_tags == to_dataframe(R, g)
             df_values == to_dataframe(L, g)
         IN IF RetagThrows(df_tags, df_values)
            THEN /\ stage' = "error"
                 /\ UNCHANGED cur
            ELSE /\ stage' = "ready"
                 /\ cur' = Expr_Retag(df_tags, df_values)
    /\ how' = "retag"
    /\ drained' = (IF IsDataFrame(R) THEN {} ELSE {"tag_expr"})
                     \cup (IF IsDataFrame(L) THEN {} ELSE {"this"})
    /\ UNCHANGED <<dfA, dfB, L, R, Lchild, wraps, mop, last, arg, again, out, post, storeVars>>

\* next() on the cursor under test (the protocol forbids it at end())
CursorNext ==
    /\ stage = "ready"
    /\ ~end(cur)
    /\ cur' \in {next(cur, g) : g \in Junk}
    /\ last' = "next" /\ arg' = 0 /\ again' = FALSE
    /\ UNCHANGED <<dfA, dfB, L, R, Lchild, wraps, stage, how, mop, out, post, drained, storeVars>>

\* advance_to_tag(t) on the cursor under test
CursorAdvance(t) ==
    /\ stage = "ready"
    /\ cur' \in {advance_to_tag(cur, t, g) : g \in Junk}
    /\ last' = "advance" /\ arg' = t
    /\ again' = (last = "advance" /\ arg = t)
    /\ UNCHANGED <<dfA, dfB, L, R, Lchild, wraps, stage, how, mop, out, post, drained, storeVars>>

\* Operations::reduce on the combined expression: cur.reduce(op)
ReduceCur(op) ==
    /\ stage = "ready" /\ post = "none" /\ how \in {"collate", "concatenate", "retag"}
    /\ \E g \in Junk : cur' = Expr_Reduction(cur, op, g)
    /\ post' = op
    /\ UNCHANGED <<dfA, dfB, L, R, Lchild, wraps, stage, how, mop, last, arg, again, out, drained, storeVars>>

\* mutant: the first row is stepped over on the cursor itself
DoMaterialize_in_place ==
    /\ stage = "ready"
    /\ \E g \in Junk : /\ out' = materialize(cur, g)
                       /\ cur' = IF end(cur) THEN cur ELSE next(cur, g)
    /\ stage' = "done"
    /\ UNCHANGED <<dfA, dfB, L, R, Lchild, wraps, how, mop, last, arg, again, post, drained, storeVars>>

\* materialize() on the cursor under test: a copy is drained, cur stays
DoMaterialize ==
    /\ stage = "ready"
    /\ \E g \in Junk : out' = materialize(cur, g)
    /\ stage' = "done"
    /\ UNCHANGED <<dfA, dfB, L, R, Lchild, wraps, how, mop, cur, last, arg, again, post, drained, storeVars>>

\* building a pipeline and materializing it
Next ==
    \/ \E op \in ApplyOps : ApplyL(op)
    \/ \E op \in ApplyOps : ApplyR(op)
    \/ \E op \in ReduceOps : ReduceL(op)
    \/ \E op \in ReduceOps : ReduceR(op)
    \/ Take
    \/ \E op \in MergeOps : Collate(op)
    \/ Concatenate
    \/ Retag
    \/ \E op \in ReduceOps : ReduceCur(op)
    \/ DoMaterialize

Spec == Init /\ [][Next]_vars

\* where a cursor stands does not depend on the callback of a stage, so the
\* pipelines stepped through the protocol use one callback of each kind
ProtocolApplyOps == {"neg"}
ProtocolReduceOps == {"sum"}

\* building a pipeline and stepping it through the cursor protocol
NextCursor ==
    \/ \E op \in ProtocolApplyOps : ApplyL(op)
    \/ \E op \in ProtocolApplyOps : ApplyR(op)
    \/ \E op \in ProtocolReduceOps : ReduceL(op)
    \/ \E op \in ProtocolReduceOps : ReduceR(op)
    \/ Take
    \/ \E op \in MergeOps : Collate(op)
    \/ Concatenate
    \/ Retag
    \/ CursorNext
    \/ \E t \in SeekTags : CursorAdvance(t)

SpecCursor == Init /\ [][NextCursor]_vars

\* building a pipeline over the left operand, stepping it through the cursor
\* protocol and materializing it where it stands
NextDrain ==
    \/ \E op \in ProtocolApplyOps : ApplyL(op)
    \/ \E op \in ProtocolReduceOps : ReduceL(op)
    \/ Take
    \/ \E op \in MergeOps : Collate(op)
    \/ Concatenate
    \/ Retag
    \/ CursorNext
    \/ \E t \in SeekTags : CursorAdvance(t)
    \/ DoMaterialize

SpecDrain == Init /\ [][NextDrain]_vars

\* --------------------------- the search loop, its test and its body as steps
\* Two texts of the loop that looks for the next right row with a match:
\* "accessor" is Expr_Intersection::update_tagvalue, "member" is the older
\* Expr_Intersection::next whose cursors keep tag, value and _end as members.
SearchVariants == {"accessor", "member"}

\* Expr_DataFrame::advance_to_tag of the member variant: the position
\* lower_bound returns, whatever tag stands there
DataFrame2_advance_to_tag(c, t) ==
    IF c.df.rt THEN [c EXCEPT !.i = t] ELSE [c EXCEPT !.i = LowerBound(c.df.tags, t)]

\* Expr_Intersection of the member variant before its constructor calls next()
Expr_Intersection2(df1, df2, op, g) ==
    [kind |-> "inter2", df1 |-> df1, df2 |-> df2, merge_op |-> op, tag |-> g, value |-> g, _end |-> end(df2)]

InitSearch ==
    /\ dfA \in LeftFrames
    /\ dfB \in RightFrames
    /\ L = Expr_DataFrame(dfA)
    /\ R = Expr_DataFrame(dfB)
    /\ Lchild = NoCursor
    /\ wraps = 0
    /\ stage = "search"
    /\ how \in SearchVariants
    /\ mop \in MergeOps
    /\ \E g \in Junk :
         cur = IF how = "accessor"
               THEN [kind |-> "inter", df1 |-> L, df2 |-> R, merge_op |-> mop, _value |-> g]
               ELSE Expr_Intersection2(L, R, mop, g)
    /\ last = "none" /\ arg = 0 /\ again = FALSE
    /\ out = EmptyFrame
    /\ post = "none"
    /\ drained = {}
    /\ store = <<>> /\ handles = <<>> /\ lastw = 0 /\ got = NoRow

\* the test of the search loop, !df2.end(), in either variant
search_test ==
    /\ stage = "search"
    /\ stage' = IF end(cur.df2) THEN "emit" ELSE "seek"
    /\ UNCHANGED <<dfA, dfB, L, R, Lchild, wraps, how, mop, cur, last, arg, again, out, post, drained, storeVars>>

\* the body of the for loop of Expr_Intersection::update_tagvalue: continue
\* runs the increment df2.next() before the test
Intersection_search_step ==
    /\ stage = "seek" /\ how = "accessor"
    /\ \E g \in Junk :
         LET d1 == advance_to_tag(cur.df1, tag(cur.df2, g), g)
         IN IF end(d1)
            THEN /\ cur' = [cur EXCEPT !.df1 = d1, !.df2 = next(cur.df2, g)]
                 /\ stage' = "search"
            ELSE /\ cur' = [cur EXCEPT !.df1 = d1,
                                       !._value = MergeOpEval(cur.merge_op, tag(d1, g), value(d1, g),
                                                              value(cur.df2, g))]
                 /\ stage' = "emit"
    /\ UNCHANGED <<dfA, dfB, L, R, Lchild, wraps, how, mop, last, arg, again, out, post, drained, storeVars>>

\* the body of the while loop of the member variant's
\* Expr_Intersection::next: continue goes back to the test with df2 where it was
Intersection2_search_step ==
    /\ stage = "seek" /\ how = "member"
    /\ \E g \in Junk :
         LET d1 == DataFrame2_advance_to_tag(cur.df1, tag(cur.df2, g))
         IN IF end(d1)
            THEN /\ cur' = [cur EXCEPT !.df1 = d1]
                 /\ stage' = "search"
            ELSE /\ cur' = [cur EXCEPT !.df1 = d1,
                                       !.tag = tag(d1, g),
                                       !.value = MergeOpEval(cur.merge_op, tag(d1, g), value(d1, g),
                                                             value(cur.df2, g)),
                                       !.df2 = next(cur.df2, g)]
                 /\ stage' = "emit"
    /\ UNCHANGED <<dfA, dfB, L, R, Lchild, wraps, how, mop, last, arg, again, out, post, drained, storeVars>>

\* one iteration of the loop of materialize: the test of end(), the two
\* push_back, and next() up to its search loop
materialize_step ==
    /\ stage = "emit"
    /\ IF how = "accessor"
       THEN IF end(cur)
            THEN /\ stage' = "done"
                 /\ UNCHANGED <<cur, out>>
            ELSE /\ \E g \in Junk :
                      /\ out' = DataFrame(Append(out.tags, tag(cur, g)), Append(out.values, value(cur, g)))
                      /\ cur' = [cur EXCEPT !.df2 = next(cur.df2, g)]
                 /\ stage' = "search"
       ELSE IF cur._end
            THEN /\ stage' = "done"
                 /\ UNCHANGED <<cur, out>>
            ELSE /\ out' = DataFrame(Append(out.tags, cur.tag), Append(out.values, cur.value))
                 /\ cur' = [cur EXCEPT !._end = end(cur.df2)]
                 /\ stage' = "search"
    /\ UNCHANGED <<dfA, dfB, L, R, Lchild, wraps, how, mop, last, arg, again, post, drained, storeVars>>

NextSearch ==
    \/ search_test
    \/ Intersection_search_step
    \/ Intersection2_search_step
    \/ materialize_step

\* the program is sequential: a loop that can take its next iteration takes it
SpecSearch == InitSearch /\ [][NextSearch]_vars /\ WF_vars(NextSearch)

\* ------------------------------------------------ copies of an apply stage
\* Expr_Apply keeps `const Tag *_tag`, the address of what df.tag() returned.
\* Two objects are alive: "original", held in L, and "copy", held in cur.
\* An address is either an element of the tags vector on the heap or a member
\* of the child cursor that one of the two objects holds.
CopyChildKinds == {"src", "reduce"}

\* &df.tag() for the child df held by the object owner: tag() of a source
\* over explicit tags returns (*df.tags)[i], of a source over implicit tags
\* its member i, of a reduction its member _tag
AddressOfTag(owner, df) ==
    IF df.kind = "src" /\ ~df.df.rt
    THEN [in |-> "tags", at |-> df.i]
    ELSE [in |-> owner, at |-> IF df.kind = "src" THEN "i" ELSE "_tag"]

\* *p, with l the original and c the copy
TagThrough(p, l, c, g) ==
    IF p.in = "tags" THEN TagAt(dfA, p.at, g)
    ELSE LET df == IF p.in = "original" THEN l.df ELSE c.df
         IN IF p.at = "i" THEN df.i ELSE df._tag

\* Expr_Apply::update_tagvalue of the object owner: _tag = &df.tag()
Apply_refer(owner, c) == [c EXCEPT !._tag = AddressOfTag(owner, c.df)]

\* Expr_Apply(df, apply_op) constructed in place as the object owner
Expr_Apply_at(owner, df, op, g) ==
    Apply_refer(owner, [_tag |-> [in |-> "tags", at |-> 0]] @@ Expr_Apply(df, op, g))

InitCopy ==
    /\ dfA \in LeftFrames
    /\ dfB = EmptyFrame
    /\ \E k \in CopyChildKinds : \E op \in ApplyOps : \E g \in Junk :
         /\ Lchild = IF k = "src" THEN Expr_DataFrame(dfA)
                                  ELSE Expr_Reduction(Expr_DataFrame(dfA), "sum", g)
         /\ L = Expr_Apply_at("original", Lchild, op, g)
    /\ R = Expr_DataFrame(dfB)
    /\ wraps = 0
    /\ stage = "original"
    /\ how = "none"
    /\ mop = "none"
    /\ cur = NoCursor
    /\ last = "none" /\ arg = 0 /\ again = FALSE
    /\ out = EmptyFrame
    /\ post = "none"
    /\ drained = {}
    /\ store = <<>> /\ handles = <<>> /\ lastw = 0 /\ got = NoRow

\* auto copy = original: the implicit copy constructor copies df, _value
\* and the pointer _tag member by member
CopyCursor ==
    /\ stage = "original"
    /\ cur' = L
    /\ stage' = "copied"
    /\ last' = "none" /\ arg' = 0
    /\ UNCHANGED <<dfA, dfB, L, R, Lchild, wraps, how, mop, again, out, post, drained, storeVars>>

\* original.next()
OriginalNext ==
    /\ stage \in {"original", "copied"}
    /\ ~end(L)
    /\ L' \in {Apply_refer("original", next(L, g)) : g \in Junk}
    /\ last' = "original" /\ arg' = 0
    /\ UNCHANGED <<dfA, dfB, R, Lchild, wraps, stage, how, mop, cur, again, out, post, drained, storeVars>>

\* original.advance_to_tag(t)
OriginalAdvance(t) ==
    /\ stage \in {"original", "copied"}
    /\ L' \in {Apply_refer("original", advance_to_tag(L, t, g)) : g \in Junk}
    /\ last' = "original" /\ arg' = t
    /\ UNCHANGED <<dfA, dfB, R, Lchild, wraps, stage, how, mop, cur, again, out, post, drained, storeVars>>

\* copy.next()
CopyNext ==
    /\ stage = "copied"
    /\ ~end(cur)
    /\ cur' \in {Apply_refer("copy", next(cur, g)) : g \in Junk}
    /\ last' = "copy" /\ arg' = 0
    /\ UNCHANGED <<dfA, dfB, L, R, Lchild, wraps, stage, how, mop, again, out, post, drained, storeVars>>

\* copy.advance_to_tag(t)
CopyAdvance(t) ==
    /\ stage = "copied"
    /\ cur' \in {Apply_refer("copy", advance_to_tag(cur, t, g)) : g \in Junk}
    /\ last' = "copy" /\ arg' = t
    /\ UNCHANGED <<dfA, dfB, L, R, Lchild, wraps, stage, how, mop, again, out, post, drained, storeVars>>

NextCopy ==
    \/ CopyCursor
    \/ OriginalNext
    \/ \E t \in SeekTags : OriginalAdvance(t)
    \/ CopyNext
    \/ \E t \in SeekTags : CopyAdvance(t)

SpecCopy == InitCopy /\ [][NextCopy]_vars

\* ------------------------------------- the reference-caching Intersection
\* Expr_Intersection of the variant whose cursors keep tag as a
\* const_reference, value as a member and end() as the cached flag _end.
\* tag.refer(df2.tag): the address of an element of the tags vector when df2
\* is a source over explicit tags, of the member tag of df2 otherwise
Ref_refer(df2) ==
    IF df2.kind = "src" /\ ~df2.df.rt
    THEN [in |-> "tags", at |-> df2.i]
    ELSE [in |-> "member"]

\* operator const T &() on the cached tag: *ptr.  ptr is 0 until the first
\* refer; the member tag of a source over implicit tags keeps the last row
\* it stood on, the member tag of a reduction the last group
Ref_tag(c, g) ==
    CASE c.tag.in = "null" -> g
      [] c.tag.in = "tags" -> TagAt(c.df2.df, c.tag.at, g)
      [] c.tag.in = "member" ->
            IF c.df2.kind = "reduce" THEN c.df2._tag
            ELSE IF c.df2.i < Size(c.df2.df) THEN c.df2.i
            ELSE IF Size(c.df2.df) > 0 THEN Size(c.df2.df) - 1 ELSE g

RECURSIVE Ref_search(_, _)
\* the for loop of update_tagvalue
Ref_search(c, g) ==
    IF end(c.df2) THEN c
    ELSE LET d1 == advance_to_tag(c.df1, tag(c.df2, g), g)
         IN IF end(d1)
            THEN Ref_search([c EXCEPT !.df1 = d1, !.df2 = next(c.df2, g)], g)
            ELSE [c EXCEPT !.df1 = d1,
                           !.tag = Ref_refer(c.df2),
                           !.value = MergeOpEval(c.merge_op, tag(d1, g), value(d1, g), value(c.df2, g))]

\* update_tagvalue: _end = df2.end() is stored before the loop moves df2
Ref_update_tagvalue(c, g) == Ref_search([c EXCEPT !._end = end(c.df2)], g)

\* next: df2.next(); update_tagvalue()
Ref_next(c, g) == Ref_update_tagvalue([c EXCEPT !.df2 = next(c.df2, g)], g)

\* Expr_Intersection(df1, df2, merge_op): _end(false), then update_tagvalue()
Expr_Intersection_ref(df1, df2, op, g) ==
    Ref_update_tagvalue([kind |-> "inter_ref", df1 |-> df1, df2 |-> df2, merge_op |-> op,
                         tag |-> [in |-> "null"], value |-> g, _end |-> FALSE], g)

RECURSIVE Ref_Drain(_, _, _, _)
\* the loop of materialize over the copy: end() is the flag _end
Ref_Drain(c, tags, values, g) ==
    IF c._end THEN DataFrame(tags, values)
    ELSE Ref_Drain(Ref_next(c, g), Append(tags, Ref_tag(c, g)), Append(values, c.value), g)

Ref_materialize(c, g) == Ref_Drain(c, <<>>, <<>>, g)

\* Operations::collate of the reference-caching variant
CollateRef(op) ==
    /\ stage = "build"
    /\ \E g \in Junk : cur' = Expr_Intersection_ref(L, R, op, g)
    /\ stage' = "ready" /\ how' = "collate_ref" /\ mop' = op
    /\ UNCHANGED <<dfA, dfB, L, R, Lchild, wraps, last, arg, again, out, post, drained, storeVars>>

\* materialize() on the reference-caching Intersection
DoMaterializeRef ==
    /\ stage = "ready" /\ how = "collate_ref"
    /\ \E g \in Junk : out' = Ref_materialize(cur, g)
    /\ stage' = "done"
    /\ UNCHANGED <<dfA, dfB, L, R, Lchild, wraps, how, mop, cur, last, arg, again, post, drained, storeVars>>

\* materialize() on the accessor-based Intersection
DoMaterializeAccessor == how = "collate" /\ DoMaterialize

\* the same operands collated and materialized by either variant
NextVariants ==
    \/ \E op \in ReduceOps : ReduceL(op)
    \/ \E op \in ReduceOps : ReduceR(op)
    \/ \E op \in MergeOps : Collate(op)
    \/ \E op \in MergeOps : CollateRef(op)
    \/ DoMaterializeAccessor
    \/ DoMaterializeRef

SpecVariants == Init /\ [][NextVariants]_vars

\* ------------------------------------------------- DataFrame as a handle
\* A DataFrame object holds two shared_ptr: the addresses of its tags vector
\* and of its values vector.
WriteVals == {35}

\* the DataFrame a handle shows: its two vectors read through the pointers
Deref(st, df) == DataFrame(st[df.tags], st[df.values])

\* DataFrame(const std::vector&, const std::vector&), and DataFrame()
\* followed by push_back: tags(new ...), values(new ...)
DataFrame_ctor(st, tags, values) ==
    [store |-> st \o <<tags, values>>, df |-> [tags |-> Len(st) + 1, values |-> Len(st) + 2]]

\* mutant: the copy gets vectors of its own
DataFrame_copy_deep(st, df) == DataFrame_ctor(st, st[df.tags], st[df.values])

\* the implicit copy constructor of DataFrame: the two shared_ptr are copied
DataFrame_copy(st, df) == [store |-> st, df |-> df]

\* mutant: the result shares the vectors of the source
materialize_handle_alias(st, df, g) == [store |-> st, df |-> df]

\* to_expr(df).materialize(): DataFrame mdf; push_back per row; return mdf
materialize_handle(st, df, g) ==
    LET mdf == materialize(Expr_DataFrame(Deref(st, df)), g)
    IN DataFrame_ctor(st, mdf.tags, mdf.values)

\* DataFrame::operator[](size_t i): no test of i against size()
DataFrame_index(df, i, g) == [t |-> TagAt(df, i, g), v |-> ValueAt(df, i, g)]

\* (*df.values)[i] = v
WriteValueAt(st, df, i, v) == [st EXCEPT ![df.values][i + 1] = v]

\* the DataFrames of the tests: tags 1..n, values 10, 20, ...
StoreFrames == {DataFrame([k \in 1..n |-> k], RowVals(n, 10)) : n \in 1..MaxLen}

InitStore ==
    /\ dfA = EmptyFrame /\ dfB = EmptyFrame
    /\ L = NoCursor /\ R = NoCursor /\ Lchild = NoCursor /\ cur = NoCursor
    /\ wraps = 0 /\ stage = "store" /\ how = "none" /\ mop = "none"
    /\ last = "none" /\ arg = 0 /\ again = FALSE
    /\ out = EmptyFrame /\ post = "none" /\ drained = {}
    /\ \E f \in StoreFrames :
          LET made == DataFrame_ctor(<<>>, f.tags, f.values)
          IN /\ store = made.store
             /\ handles = <<[tags |-> made.df.tags, values |-> made.df.values, by |-> "ctor", src |-> 0]>>
    /\ lastw = 0 /\ got = NoRow

\* auto df_copy = df; passing df by value; df.to_dataframe()
CopyFrame(h) ==
    /\ Len(handles) < MaxHandles
    /\ LET made == DataFrame_copy(store, handles[h])
       IN /\ store' = made.store
          /\ handles' = Append(handles, [tags |-> made.df.tags, values |-> made.df.values,
                                          by |-> "copy", src |-> h])
    /\ lastw' = 0 /\ got' = NoRow
    /\ UNCHANGED pipeVars

\* df.to_expr().materialize(); df.to_expr().to_dataframe()
MaterializeFrame(h) ==
    /\ Len(handles) < MaxHandles
    /\ \E g \in Junk :
          LET made == materialize_handle(store, handles[h], g)
          IN /\ store' = made.store
             /\ handles' = Append(handles, [tags |-> made.df.tags, values |-> made.df.values,
                                             by |-> "materialize", src |-> h])
    /\ lastw' = 0 /\ got' = NoRow
    /\ UNCHANGED pipeVars

\* (*df.values)[i] = v through the DataFrame h
WriteValue(h, i, v) ==
    /\ i < Len(store[handles[h].values])
    /\ store' = WriteValueAt(store, handles[h], i, v)
    /\ lastw' = h /\ got' = NoRow
    /\ UNCHANGED <<pipeVars, handles>>

\* df[i] through the DataFrame h: TagValue{(*tags)[i], (*values)[i]}
IndexFrame(h, i) ==
    /\ \E g \in Junk : got' = [h |-> h, i |-> i, row |-> DataFrame_index(Deref(store, handles[h]), i, g)]
    /\ lastw' = 0
    /\ UNCHANGED <<pipeVars, store, handles>>

NextStore ==
    \/ \E h \in DOMAIN handles : CopyFrame(h)
    \/ \E h \in DOMAIN handles : MaterializeFrame(h)
    \/ \E h \in DOMAIN handles : \E i \in 0..(MaxLen - 1) : \E v \in WriteVals : WriteValue(h, i, v)

SpecStore == InitStore /\ [][NextStore]_vars

\* the same DataFrame objects, also read by position
NextIndex ==
    \/ \E h \in DOMAIN handles : CopyFrame(h)
    \/ \E h \in DOMAIN handles : MaterializeFrame(h)
    \/ \E h \in DOMAIN handles : \E i \in 0..(MaxLen - 1) : \E v \in WriteVals : WriteValue(h, i, v)
    \/ \E h \in DOMAIN handles : \E i \in 0..MaxLen : IndexFrame(h, i)

SpecIndex == InitStore /\ [][NextIndex]_vars

\* ------------------------------------------------------------ properties
\* rows a cursor still has to emit (junk never reaches an emitted row)
Contents(c) == materialize(c, CHOOSE g \in Junk : TRUE)

Indices(s) == [k \in 1..Len(s) |-> k]

HasTag(df, t) == \E j \in 1..Len(df.tags) : df.tags[j] = t

UniqueTags(df) == \A j, k \in 1..Len(df.tags) : df.tags[j] = df.tags[k] => j = k

Materialized(h) == stage = "done" /\ how = h /\ post = "none"

\* C1: materializing Intersection(L, R, combine), L tag-sorted with at most
\* one row per tag and L, R of any cursor kind, emits in R order exactly one
\* row (R.tag, combine(L.tag, L.value, R.value)) for every R row whose tag
\* occurs in L and nothing for the other R rows; an unmatched R row never
\* suppresses a later R row that has a match.
C1_IntersectionEmitsEveryMatch ==
    LET l == Contents(L)
        r == Contents(R)
        hit == SelectSeq(Indices(r.tags), LAMBDA k : HasTag(l, r.tags[k]))
        lrow(t) == CHOOSE j \in 1..Len(l.tags) : l.tags[j] = t
    IN (Materialized("collate") /\ IsSorted(l.tags) /\ UniqueTags(l) /\ IsSorted(r.tags)) =>
          /\ out.tags = [n \in 1..Len(hit) |-> r.tags[hit[n]]]
          /\ out.values = [n \in 1..Len(hit) |->
                             MergeOpEval(mop, r.tags[hit[n]], l.values[lrow(r.tags[hit[n]])], r.values[hit[n]])]

\* values of the rows of df tagged t, in row order
RunOf(df, t) ==
    LET at == SelectSeq(Indices(df.tags), LAMBDA k : df.tags[k] = t)
    IN [n \in 1..Len(at) |-> df.values[at[n]]]

RECURSIVE SumSeq(_)
SumSeq(s) == IF s = <<>> THEN 0 ELSE s[1] + SumSeq(Tail(s))

MaxSeq(s) == CHOOSE m \in {s[k] : k \in 1..Len(s)} : \A k \in 1..Len(s) : s[k] <= m

Aggregate(op, run) ==
    CASE op = "sum" -> SumSeq(run)
      [] op = "max" -> MaxSeq(run)
      [] op = "count" -> Len(run)

DistinctTags(df) == {df.tags[k] : k \in 1..Len(df.tags)}

StrictlyAscending(s) == \A k \in 1..(Len(s) - 1) : s[k] < s[k + 1]

\* C2: materializing a Reduction over a tag-sorted child yields one row per
\* distinct tag, in ascending tag order, whose value is the fold of the run:
\* the per-tag sum, maximum or row count.
C2_ReductionOneRowPerTag ==
    (Materialized("take") /\ L.kind = "reduce") =>
        LET child == Contents(Lchild)
        IN /\ Len(out.tags) = Cardinality(DistinctTags(child))
           /\ Len(out.values) = Len(out.tags)
           /\ StrictlyAscending(out.tags)
           /\ DistinctTags(out) = DistinctTags(child)
           /\ \A k \in 1..Len(out.tags) :
                 out.values[k] = Aggregate(L.reduce_op, RunOf(child, out.tags[k]))

C2_Witness ==
    /\ Materialized("take") /\ L.kind = "reduce" /\ L.reduce_op = "sum"
    /\ Len(Contents(Lchild).tags) = 2 /\ out.tags = <<1>> /\ out.values = <<30>>

RowsOf(df) == {<<df.tags[k], df.values[k]>> : k \in 1..Len(df.tags)}

CountRow(df, row) == Cardinality({k \in 1..Len(df.tags) : <<df.tags[k], df.values[k]>> = row})

\* C3: materializing Union(L, R) yields |L| + |R| rows, every row of L and of
\* R exactly once, with non-decreasing tags when both inputs are tag-sorted.
C3_UnionIsMultisetUnion ==
    Materialized("concatenate") =>
        LET l == Contents(L)
            r == Contents(R)
        IN /\ Len(out.tags) = Len(l.tags) + Len(r.tags)
           /\ Len(out.values) = Len(out.tags)
           /\ \A row \in RowsOf(out) \cup RowsOf(l) \cup RowsOf(r) :
                 CountRow(out, row) = CountRow(l, row) + CountRow(r, row)
           /\ (IsSorted(l.tags) /\ IsSorted(r.tags)) => IsSorted(out.tags)

C3_Witness ==
    /\ Materialized("concatenate")
    /\ Len(Contents(L).tags) = 2 /\ Len(Contents(R).tags) = 2 /\ Len(out.tags) = 4
    /\ L.kind = "src" /\ R.kind = "src"

\* rows of either input tagged below t, and R rows tagged t
UnionRank(l, r, side, k) ==
    LET t == IF side = "R" THEN r.tags[k] ELSE l.tags[k]
    IN Cardinality({j \in 1..Len(l.tags) : l.tags[j] < t})
         + Cardinality({j \in 1..Len(r.tags) : r.tags[j] < t})
         + (IF side = "R"
            THEN Cardinality({j \in 1..Len(r.tags) : r.tags[j] = t /\ j < k})
            ELSE Cardinality({j \in 1..Len(r.tags) : r.tags[j] = t})
                   + Cardinality({j \in 1..Len(l.tags) : l.tags[j] = t /\ j < k}))
         + 1

RetagRank(keys, k) ==
    Cardinality({j \in 1..Len(keys) : keys[j] < keys[k] \/ (keys[j] = keys[k] /\ j < k)}) + 1

\* C5: for a tag-source T and a value-source V of equal length n, Retag(T, V)
\* materializes to the n pairs (T.value[i], V.value[i]) in non-decreasing
\* order of the new tag, rows with equal new tags in their original order.
C5_RetagStablePermutation ==
    Materialized("retag") =>
        LET T == Contents(R)
            V == Contents(L)
        IN /\ Len(T.values) = Len(V.values)
           /\ Len(out.tags) = Len(V.values) /\ Len(out.values) = Len(V.values)
           /\ IsSorted(out.tags)
           /\ \A k \in 1..Len(V.values) :
                 /\ out.tags[RetagRank(T.values, k)] = T.values[k]
                 /\ out.values[RetagRank(T.values, k)] = V.values[k]

C5_Witness ==
    /\ Materialized("retag")
    /\ Len(out.tags) = 2 /\ out.tags[1] = out.tags[2] /\ out.values = <<10, 20>>
    /\ L.kind = "src" /\ R.kind = "reduce"

C5_WitnessReordered ==
    /\ Materialized("retag")
    /\ Len(out.tags) = 2 /\ out.values = <<20, 10>>

\* tags of a DataFrame; std::vector<RangeTag> answers index i with i
FrameTags(df) == IF df.rt THEN [k \in 1..df.sz |-> k - 1] ELSE df.tags

\* C6: materializing a fresh source cursor over a Tagged Sequence reproduces
\* its tags and values, in order and length.
C6_SourceIdentity ==
    (Materialized("take") /\ L.kind = "src") =>
        /\ out.tags = FrameTags(dfA)
        /\ out.values = dfA.values

C6_Witness ==
    /\ Materialized("take") /\ L.kind = "src"
    /\ Len(out.tags) = MaxLen /\ out.tags[1] = out.tags[2]

\* the cursor seeks with Expr_DataFrame::advance_to_tag: a source, or a chain
\* of apply stages over a source
RECURSIVE SeeksBySource(_)
SeeksBySource(c) ==
    CASE c.kind = "src" -> TRUE
      [] c.kind = "apply" -> SeeksBySource(c.df)
      [] OTHER -> FALSE

\* 1-based index of the first tag that satisfies P, Len + 1 when there is none
FirstIndex(tags, P(_)) ==
    IF \E k \in 1..Len(tags) : P(tags[k])
    THEN CHOOSE k \in 1..Len(tags) : P(tags[k]) /\ \A j \in 1..(k - 1) : ~P(tags[j])
    ELSE Len(tags) + 1

SuffixFrom(df, k) ==
    DataFrame(SubSeq(df.tags, k, Len(df.tags)), SubSeq(df.values, k, Len(df.values)))

\* C7 as stated: advance_to_tag(t) leaves every kind of cursor on the first
\* row at or after its current position whose tag is >= t, at end() only if
\* there is no such row.
C7_AdvanceToFirstTagAtLeast ==
    [][last' = "advance" =>
          LET rest == Contents(cur)
          IN Contents(cur') = SuffixFrom(rest, FirstIndex(rest.tags, LAMBDA x : x >= arg'))]_vars

\* C7 amended: advance_to_tag(t) leaves the cursor on a row tagged exactly t,
\* or at end() when there is none: for a source cursor (and apply stages over
\* one) the first such row of the whole sequence, for a reduction,
\* intersection, union or retag cursor (and apply stages over one) the first
\* such row at or after the current position.
C7_AdvanceToFirstTagEqual ==
    [][last' = "advance" =>
          LET rows == IF SeeksBySource(cur) THEN Contents(L) ELSE Contents(cur)
          IN /\ Contents(cur') = SuffixFrom(rows, FirstIndex(rows.tags, LAMBDA x : x = arg'))
             /\ ~end(cur') => \A g \in Junk : tag(cur', g) = arg']_vars

C7_Witness ==
    /\ last = "advance" /\ ~SeeksBySource(cur)
    /\ ~end(cur) /\ Len(Contents(cur).tags) = 2 /\ Len(Contents(L).tags) + Len(Contents(R).tags) = 4

C7_WitnessSkipped ==
    /\ last = "advance" /\ how = "concatenate" /\ end(cur)
    /\ \E k \in 1..Len(Contents(L).tags) : Contents(L).tags[k] > arg

\* C8: on a source cursor over explicitly stored tags advance_to_tag(t) lands
\* on the first row tagged exactly t when t occurs in the sequence and at
\* end() when it does not, also when rows with larger tags exist.
C8_SourceSeekIsExact ==
    [][(last' = "advance" /\ cur.kind = "src" /\ ~cur.df.rt) =>
          IF \E k \in 1..Len(cur.df.tags) : cur.df.tags[k] = arg'
          THEN /\ ~end(cur')
               /\ cur'.i + 1 = FirstIndex(cur.df.tags, LAMBDA x : x = arg')
               /\ \A g \in Junk : tag(cur', g) = arg'
          ELSE end(cur')]_vars

C8_Witness ==
    /\ last = "advance" /\ cur.kind = "src" /\ ~cur.df.rt
    /\ end(cur) /\ \E k \in 1..Len(cur.df.tags) : cur.df.tags[k] > arg

C8_WitnessFound ==
    /\ last = "advance" /\ cur.kind = "src" /\ ~cur.df.rt
    /\ cur.i = 0 /\ cur.df.tags = <<arg, arg>>

\* C9: over any sequence of next() and advance_to_tag(t) calls on any kind
\* of cursor the position never decreases, so the rows still to be emitted
\* never become more.
C9_ForwardOnly ==
    [][last' \in {"next", "advance"} =>
          Len(Contents(cur').tags) <= Len(Contents(cur).tags)]_vars

\* position of a cursor: the indices of its sources and the end flags
RECURSIVE Position(_)
Position(c) ==
    CASE c.kind = "src" -> <<c.i>>
      [] c.kind = "retag" -> <<c.i>>
      [] c.kind = "apply" -> Position(c.df)
      [] c.kind = "reduce" -> <<Position(c.df), c._end>>
      [] c.kind = "inter" -> <<Position(c.df1), Position(c.df2)>>
      [] c.kind = "union" -> <<Position(c.df1), Position(c.df2)>>

\* what the protocol lets a caller see: end(), and tag() and value() of the
\* current row when there is one
Observable(c, g) == IF end(c) THEN <<TRUE>> ELSE <<FALSE, tag(c, g), value(c, g)>>

\* C10: a second advance_to_tag(t) leaves position, tag(), value() and end()
\* of every kind of cursor as the first one left them.
C10_AdvanceIdempotent ==
    [][again' =>
          /\ Position(cur') = Position(cur)
          /\ \A g \in Junk : Observable(cur', g) = Observable(cur, g)]_vars

C10_Witness == again /\ ~end(cur) /\ how = "take" /\ L.kind = "src" /\ L.df.rt /\ arg = 1

C10_WitnessLinear == again /\ ~end(cur) /\ how = "collate" /\ tag(cur, 0) = 2

\* a reduction stacked on the combined cursor has been materialized
MaterializedReduced(h, op) == stage = "done" /\ how = h /\ post = op

\* reduce_sum() over a cursor, materialized
ReduceSum(c) == LET g == CHOOSE x \in Junk : TRUE IN materialize(Expr_Reduction(c, "sum", g), g)

ReducedOperand(c) == LET g == CHOOSE x \in Junk : TRUE IN Expr_Reduction(c, "sum", g)

\* C11: reduce_sum(concatenate(a, b)) has one row per tag of a or b, in
\* ascending tag order, whose value is the sum of the values with that tag in
\* both inputs; it equals reduce_sum(concatenate(b, a)) and
\* reduce_sum(concatenate(reduce_sum(a), reduce_sum(b))).
C11_UnionThenSumMergesAggregates ==
    MaterializedReduced("concatenate", "sum") =>
        LET a == Contents(L)
            b == Contents(R)
        IN /\ StrictlyAscending(out.tags)
           /\ Len(out.values) = Len(out.tags)
           /\ DistinctTags(out) = DistinctTags(a) \cup DistinctTags(b)
           /\ \A k \in 1..Len(out.tags) :
                 out.values[k] = SumSeq(RunOf(a, out.tags[k])) + SumSeq(RunOf(b, out.tags[k]))
           /\ out = ReduceSum(Expr_Union(R, L))
           /\ out = ReduceSum(Expr_Union(ReducedOperand(L), ReducedOperand(R)))

C11_Witness ==
    /\ MaterializedReduced("concatenate", "sum")
    /\ Len(Contents(L).tags) = 2 /\ Len(Contents(R).tags) = 2 /\ Len(out.tags) = 2
    /\ \E t \in Tags : Len(RunOf(Contents(L), t)) = 2 /\ HasTag(Contents(R), t)

\* a source cursor over the materialization of c
Interim(c) == Expr_DataFrame(Contents(c))

\* the pipeline of cur built over other operands
Rebuild(l, r, g) ==
    LET combined == IF how = "collate" THEN Expr_Intersection(l, r, mop, g) ELSE Expr_Union(l, r)
    IN IF post = "none" THEN combined ELSE Expr_Reduction(combined, post, g)

\* C12: replacing a child cursor of a pipeline by a source cursor over that
\* child's materialization leaves the materialized output unchanged, also
\* when the child is the left input of an Intersection and some right tag is
\* absent from it.
C12_InterimMaterializationEquivalent ==
    (stage = "done" /\ how \in {"collate", "concatenate"}) =>
        \A g \in Junk :
            /\ \A l \in {L, Interim(L)} : \A r \in {R, Interim(R)} : out = materialize(Rebuild(l, r, g), g)
            /\ post # "none" =>
                  LET combined == IF how = "collate" THEN Expr_Intersection(L, R, mop, g) ELSE Expr_Union(L, R)
                  IN out = materialize(Expr_Reduction(Interim(combined), post, g), g)

C14_SumJoinFoldsLeftRun ==
    LET a == Contents(L)
        b == Contents(R)
        hit == SelectSeq(Indices(b.tags), LAMBDA k : HasTag(a, b.tags[k]))
    IN (Materialized("collate") /\ mop = "plus" /\ L.kind = "src" /\ R.kind = "src") =>
          /\ out.tags = [n \in 1..Len(hit) |-> b.tags[hit[n]]]
          /\ out.values = [n \in 1..Len(hit) |-> SumSeq(RunOf(a, b.tags[hit[n]])) + b.values[hit[n]]]

\* C15: retag() with a tag-source and a value-source of different lengths
\* raises its error before any work is done: no operand pipeline has been
\* drained or materialized and no retag cursor (with its sort permutation)
\* has been built.
C15_RetagFailsBeforeAnyWork ==
    stage = "error" => (drained = {} /\ cur = NoCursor)

IsEmpty(c) == Len(Contents(c).tags) = 0

\* the pipeline of cur is built over empty input
OverEmptyInput ==
    CASE how = "take" -> IsEmpty(L)
      [] how = "collate" -> IsEmpty(L) \/ IsEmpty(R)
      [] how \in {"concatenate", "retag"} -> IsEmpty(L) /\ IsEmpty(R)
      [] OTHER -> FALSE

\* the constructor of the apply stage c produced the same object whatever a
\* read past the end of a vector returns: it made no such read
BuiltWithoutReadingPastEnd(c) ==
    c.kind = "apply" => \A g1, g2 \in Junk : Expr_Apply(c.df, c.apply_op, g1) = Expr_Apply(c.df, c.apply_op, g2)

\* C16: a cursor of any kind built over empty input reports end() right after
\* construction (an intersection with an empty left input and a non-empty
\* right input too), materializing it returns an empty DataFrame, and no row
\* is read in building or materializing it.
C16_EmptyInputsHandled ==
    /\ (stage \in {"ready", "done"} /\ OverEmptyInput) => end(cur)
    /\ (stage = "done" /\ OverEmptyInput) => out = EmptyFrame
    /\ \A c \in {L, R} : IsEmpty(c) => BuiltWithoutReadingPastEnd(c)

\* C17: the output of materialize() on a pipeline of any stages over
\* tag-sorted sources has as many tags as values, and its tags are
\* non-decreasing.
C17_OutputIsTaggedSequence ==
    stage = "done" => (Len(out.tags) = Len(out.values) /\ IsSorted(out.tags))

C17_Witness ==
    /\ stage = "done" /\ how = "concatenate" /\ post = "none"
    /\ out.tags = <<1, 1, 2, 2>>

C17_WitnessRetag ==
    /\ stage = "done" /\ how = "retag" /\ R.kind = "apply"
    /\ Len(out.tags) = 2 /\ out.tags[1] < out.tags[2] /\ out.values = <<20, 10>>

\* the DataFrame that h was copied from, through every copy in between
RECURSIVE Root(_)
Root(h) == IF handles[h].by = "copy" THEN Root(handles[h].src) ELSE h

\* C18: materialize() returns a DataFrame whose vectors are freshly
\* allocated: a write through a DataFrame changes no DataFrame that was
\* materialized from it or that it was materialized from, nor any DataFrame
\* other than itself and its copies.
C18_MaterializeAllocatesFresh ==
    [][lastw' # 0 =>
          \A m \in DOMAIN handles :
              Root(m) # Root(lastw') => Deref(store', handles[m]) = Deref(store, handles[m])]_vars

C18_Witness ==
    /\ lastw # 0
    /\ \E m \in DOMAIN handles :
          /\ handles[m].by = "materialize" /\ Root(handles[m].src) = Root(lastw)
          /\ Deref(store, handles[m]) # Deref(store, handles[handles[m].src])

C18_WitnessOutputWritten ==
    /\ lastw # 0 /\ handles[lastw].by = "materialize"
    /\ Deref(store, handles[lastw]) # Deref(store, handles[handles[lastw].src])

\* C19: a copy of a DataFrame holds the same tags and values vectors as the
\* DataFrame it was copied from, so after any copies and writes the two show
\* equal contents.
C19_CopiesShareStorage ==
    \A h \in DOMAIN handles :
        handles[h].by = "copy" =>
            /\ handles[h].tags = handles[handles[h].src].tags
            /\ handles[h].values = handles[handles[h].src].values
            /\ Deref(store, handles[h]) = Deref(store, handles[handles[h].src])

C19_Witness ==
    /\ lastw # 0
    /\ \E h \in DOMAIN handles :
          /\ h # lastw /\ Root(h) = Root(lastw)
          /\ \E k \in 1..Len(store[handles[h].values]) : store[handles[h].values][k] \in WriteVals

\* C20: a source cursor over a DataFrame with implicit tags and n values
\* shows tag = row position at every row; after advance_to_tag(t) it stands
\* on row t, showing tag t and the value at t, when t < n and is at end()
\* when t >= n; materializing it yields the tags 0..n-1 and the values in
\* their order.
C20_RangeTagSource ==
    (stage = "ready" /\ how = "take" /\ L.kind = "src" /\ dfA.rt) =>
        /\ ~end(cur) => \A g \in Junk : tag(cur, g) = cur.i /\ value(cur, g) = dfA.values[cur.i + 1]
        /\ last = "advance" =>
              IF arg < Len(dfA.values)
              THEN ~end(cur) /\ cur.i = arg /\ \A g \in Junk : tag(cur, g) = arg /\ value(cur, g) = dfA.values[arg + 1]
              ELSE end(cur)
        /\ \A g \in Junk : materialize(L, g) = DataFrame([k \in 1..Len(dfA.values) |-> k - 1], dfA.values)

C20_Witness ==
    /\ stage = "ready" /\ how = "take" /\ L.kind = "src" /\ dfA.rt
    /\ last = "advance" /\ arg = 1 /\ ~end(cur) /\ value(cur, 0) = 20

C20_WitnessMissing ==
    /\ stage = "ready" /\ how = "take" /\ L.kind = "src" /\ dfA.rt
    /\ last = "advance" /\ arg = Len(dfA.values) /\ arg > 0 /\ end(cur)

\* C21: apply(op) emits one row per input row, in input order, with the
\* tag of the input row and the value op(tag, value); a run of k equal tags
\* yields k rows.
C21_ApplyIsRowwise ==
    (Materialized("take") /\ L.kind = "apply") =>
        LET child == Contents(Lchild)
        IN /\ out.tags = child.tags
           /\ out.values = [k \in 1..Len(child.values) |->
                                ApplyOpEval(L.apply_op, child.tags[k], child.values[k])]

C21_Witness ==
    /\ Materialized("take") /\ L.kind = "apply" /\ L.apply_op = "neg"
    /\ out.tags = <<2, 2>> /\ out.values = <<0 - 10, 0 - 20>>

\* C22: df[i] with i >= size() fails with a bounds-check error: it returns
\* a row only for i < size(), never a tag or value read from outside the
\* sequence.
C22_IndexIsBoundsChecked ==
    got # NoRow => got.i < Len(store[handles[got.h].tags])

\* C23: a pipeline of apply, reduce, collate, concatenate and retag stages
\* is lazy: once it is built, and after it is drained, no operand of any
\* stage has been materialized into a DataFrame of its own.
C23_StagesNeverMaterialize ==
    stage \in {"ready", "done"} => drained = {}

\* C24: an Intersection that is not at end() stands where its last search
\* invoked the callback: the left cursor is not at end(), the left and the
\* right cursor are on the same tag, the cached value is the callback's
\* result for these two rows, and the row exposed carries the right
\* cursor's tag.  A right row without a match in the left input is
\* therefore never combined with a left row of another tag.
C24_CombineOnlyOnEqualTags ==
    (stage = "ready" /\ cur.kind = "inter" /\ ~end(cur)) =>
        \A g \in Junk :
            /\ ~end(cur.df1)
            /\ tag(cur.df1, g) = tag(cur.df2, g)
            /\ tag(cur, g) = tag(cur.df2, g)
            /\ cur._value = MergeOpEval(cur.merge_op, tag(cur.df1, g), value(cur.df1, g), value(cur.df2, g))

\* the right input starts with a row whose tag the left input lacks; the
\* search dropped it and combined the next right row with its match
C24_Witness ==
    /\ stage = "ready" /\ cur.kind = "inter" /\ ~end(cur)
    /\ L.kind = "src" /\ R.kind = "src"
    /\ dfA.tags = <<2>> /\ dfB.tags = <<1, 2>>
    /\ cur.df2.i = 1 /\ cur.df1.i = 0
    /\ cur._value = MergeOpEval(cur.merge_op, 2, 10, 2)

\* C25: constructing and materializing an Intersection terminates for all
\* finite inputs: the search loop and the loop of materialize reach their
\* exit.
C25_IntersectionTerminates == <>(stage = "done")

\* the accessor variant steps the right cursor past a row without a match,
\* and its run reaches the exit of materialize
AccessorSearchTerminates == (how = "accessor") ~> (stage = "done")

\* the member variant stands in its search loop on a right row whose tag is
\* larger than every left tag, with the left cursor at end()
MemberSearchStuck ==
    /\ how = "member" /\ stage = "search"
    /\ ~end(cur.df2) /\ end(cur.df1)
    /\ \A g \in Junk : end(DataFrame2_advance_to_tag(cur.df1, tag(cur.df2, g)))

RECURSIVE Reductions(_)
\* the Reduction cursors of an expression, children included
Reductions(c) ==
    CASE c.kind = "reduce" -> {c} \cup Reductions(c.df)
      [] c.kind = "apply" -> Reductions(c.df)
      [] c.kind \in {"inter", "union"} -> Reductions(c.df1) \cup Reductions(c.df2)
      [] OTHER -> {}

RECURSIVE Bottom(_)
\* the DataFrame under a chain of apply and reduce stages
Bottom(c) == IF c.kind = "src" THEN c.df ELSE Bottom(c.df)

\* the tag of the last row under a chain of apply and reduce stages
LastTag(c) == FrameTags(Bottom(c))[Size(Bottom(c))]

\* the child of the Reduction r runs one run ahead of r
OneRunAhead(r) ==
    /\ r._end => end(r.df)
    /\ ~r._end =>
         /\ end(r.df) \/ \A g \in Junk : tag(r.df, g) # r._tag
         /\ end(r.df) => r._tag = LastTag(r)

ReductionRunsAhead ==
    /\ \A r \in Reductions(L) \cup Reductions(R) \cup Reductions(cur) : OneRunAhead(r)
    /\ (L.kind = "reduce" /\ Size(Bottom(L)) > 0) => ~L._end
    /\ (R.kind = "reduce" /\ Size(Bottom(R)) > 0) => ~R._end

\* next() on a Reduction that is not at end(): end() is first reported by
\* the call made from the group of the child's last row, and a call that
\* does not report end() exposes a later group
ReductionNext ==
    (cur.kind = "reduce" /\ ~cur._end) =>
        \A g \in Junk :
            LET n == next(cur, g)
            IN /\ n._end => (end(cur.df) /\ cur._tag = LastTag(cur))
               /\ ~n._end => (n._tag > cur._tag /\ OneRunAhead(n))

\* C26: after construction and after every next() that leaves a Reduction
\* not at end(), its child is at end() or on a row of another tag (the child
\* runs one run ahead); the Reduction reports end() only on the next() that
\* follows the exposure of the group holding the child's last row, so the
\* last group is not lost and no group is exposed twice.
C26_ReductionRunsOneAhead == ReductionRunsAhead /\ ReductionNext

\* a Reduction stands on its first group while its child stands on the
\* first row of the next run
C26_Witness ==
    /\ stage = "ready" /\ how = "take" /\ cur.kind = "reduce" /\ cur.df.kind = "src"
    /\ dfA.tags = <<1, 2>> /\ ~cur._end /\ cur._tag = 1 /\ cur.df.i = 1

\* a Reduction stands on its last group while its child is at end()
C26_WitnessLastGroup ==
    /\ stage = "ready" /\ how = "take" /\ cur.kind = "reduce" /\ cur.df.kind = "src"
    /\ dfA.tags = <<1, 2>> /\ last = "next" /\ ~cur._end /\ cur._tag = 2 /\ end(cur.df)

\* the cursor under test as it was built, before any next() or advance_to_tag()
Fresh(g) ==
    CASE how = "take" -> L
      [] how = "collate" -> Expr_Intersection(L, R, mop, g)
      [] how = "concatenate" -> Expr_Union(L, R)
      [] how = "retag" -> Expr_Retag(to_dataframe(R, g), to_dataframe(L, g))

\* df holds the last rows of whole, from the row the cursor c stands on
RowsFromPosition(df, c, whole) ==
    /\ \E k \in 1..(Len(whole.tags) + 1) : df = SuffixFrom(whole, k)
    /\ IF end(c)
       THEN Len(df.tags) = 0
       ELSE /\ Len(df.tags) > 0
            /\ \A g \in Junk : df.tags[1] = tag(c, g) /\ df.values[1] = value(c, g)

\* C27: materialize() emits the rows from the cursor's current position to
\* its end, none of the rows that next() or advance_to_tag() stepped over,
\* and leaves the cursor it is called on as it was: materializing the same
\* cursor again returns an equal sequence.
C27_MaterializeFromPosition ==
    [][(stage = "ready" /\ stage' = "done") =>
          /\ cur' = cur
          /\ \A g \in Junk : RowsFromPosition(out', cur, Contents(Fresh(g)))
          /\ \A g \in Junk : materialize(cur', g) = out']_vars

\* TEST(Apply, find_tag): advance_to_tag(2) on an apply stage, then
\* materialize; the row tagged 1 is not emitted
C27_Witness ==
    /\ stage = "done" /\ how = "take" /\ L.kind = "apply" /\ L.apply_op = "neg"
    /\ dfA.tags = <<1, 2>> /\ last = "advance" /\ arg = 2
    /\ out.tags = <<2>> /\ out.values = <<0 - 20>>

\* materialize after next() on an intersection
C27_WitnessNext ==
    /\ stage = "done" /\ how = "collate" /\ last = "next"
    /\ Len(Contents(Fresh(0)).tags) = 2 /\ Len(out.tags) = 1

\* what the call recorded in last' and arg' makes of the cursor c when a read
\* outside an array returns g
Called(c, g) == IF last' = "next" THEN next(c, g) ELSE advance_to_tag(c, arg', g)

\* C28: during any sequence of cursor operations no cursor reads a tags or
\* values array at an index >= its length and no derived cursor reads
\* tag() or value() of a child at end(): the iterator that a source's
\* advance_to_tag dereferences stands on a row, and what a call leaves in
\* the cursor is the same whatever lies outside the arrays.
C28_NoReadPastEnd ==
    [][last' \in {"next", "advance"} =>
          /\ (last' = "advance" /\ cur.kind = "src" /\ ~cur.df.rt) =>
                 LowerBound(cur.df.tags, arg') < Size(cur.df)
          /\ \A g1, g2 \in Junk : Called(cur, g1) = Called(cur, g2)]_vars

\* what the apply stage x reports: end(), and tag() and value() when it is
\* not at end(); tag() reads through the pointer _tag
Reported(x, l, c, g) ==
    IF end(x) THEN <<TRUE>> ELSE <<FALSE, TagThrough(x._tag, l, c, g), x._value>>

\* C29: a copy of a cursor is independent of the cursor it was copied from:
\* next() or advance_to_tag() on one of the two changes nothing of what the
\* other reports by tag(), value() and end().
C29_CopiesAreIndependent ==
    [][(stage = "copied" /\ stage' = "copied") =>
          \A g \in Junk :
              /\ last' = "original" => Reported(cur', L', cur', g) = Reported(cur, L, cur, g)
              /\ last' = "copy" => Reported(L', L', cur', g) = Reported(L, L, cur, g)]_vars

\* the copy of an apply stage over implicit tags reports the tag of the row
\* the original has moved to, with the value of the row it stands on itself
CopyFollowsOriginal ==
    /\ stage = "copied" /\ last = "original" /\ dfA.rt /\ ~end(cur)
    /\ cur.df.i = 0 /\ cur._tag.in = "original" /\ L.df.i = 1
    /\ TagThrough(cur._tag, L, cur, 0) = 1

\* C30: the reference-caching variant and the accessor variant materialize
\* the same sequence for the same operands, also when the last right rows
\* of an Intersection have no match in the left input.
C30_VariantsMaterializeAlike ==
    stage = "done" =>
        \A g \in Junk :
            /\ how = "collate" => out = Ref_materialize(Expr_Intersection_ref(L, R, mop, g), g)
            /\ how = "collate_ref" => out = materialize(Expr_Intersection(L, R, mop, g), g)

\* the last right row has no match: the reference-caching variant emits the
\* matched row a second time
StaleRowEmitted ==
    /\ stage = "done" /\ how = "collate_ref" /\ L.kind = "src" /\ R.kind = "src"
    /\ dfA.tags = <<1>> /\ dfB.tags = <<1, 2>>
    /\ out.tags = <<1, 1>>
    /\ \A g \in Junk : materialize(Expr_Intersection(L, R, mop, g), g).tags = <<1>>

\* both variants emit the same rows when the last right row has a match
VariantsAgreeOnMatchedTail ==
    (stage = "done" /\ how = "collate_ref" /\ L.kind = "src" /\ R.kind = "src"
        /\ Len(dfB.tags) > 0 /\ HasTag(dfA, dfB.tags[Len(dfB.tags)]) /\ ~dfA.rt) =>
        \A g \in Junk : out = materialize(Expr_Intersection(L, R, mop, g), g)

====
